---- MODULE Spec2Model ----
(***************************************************************************)
(* Model of mypack/analysis.py: the axis-stacking engine do_stack, its     *)
(* consumers enlarge_mask and regrid, the bisection get_zero_dichoto and   *)
(* get_cursor built on it.                                                 *)
(*                                                                         *)
(* An array is a record [shape, data]: shape is the tuple of axis sizes,   *)
(* data maps every index tuple (0-based entries, as in Python) to a value. *)
(* Axis numbers are Python's: 0-based, negative ones counted from the end. *)
(* A raised exception is the record [err |-> <exception name>].            *)
(***************************************************************************)
EXTENDS Integers, Sequences, FiniteSets, TLC

VARIABLES pc, call, ret, sigZero, t1, t2, t3, ncount

vars == <<pc, call, ret, sigZero, t1, t2, t3, ncount>>

\* ------------------------------------------------------------ bounds
MaxRank == 3
MaxDim == 2
MaskDim == 3
MaxTrue == 1
MaxNeighbors == 2
MaxStack == 2
MaxLen == 4
MaxMag == 1
BracketLen == 5
BracketMag == 2
CursorLen == 3
MaxCoord == 3
MaxHi == 2

\* The iteration cap of get_zero_dichoto.
MaxIter == 10000

\* ------------------------------------------------------------ values
\* Python's None, and a supplied optional argument.
None == [none |-> TRUE]
Some(v) == [none |-> FALSE, val |-> v]

Err(kind) == [err |-> kind]
IsErr(v) == "err" \in DOMAIN v

Front(s) == SubSeq(s, 1, Len(s) - 1)
Last(s) == s[Len(s)]

RECURSIVE Prod(_)
Prod(s) == IF s = <<>> THEN 1 ELSE s[1] * Prod(Tail(s))

\* range(a, b)
range(a, b) == [i \in 1..(IF b > a THEN b - a ELSE 0) |-> a + i - 1]

\* ------------------------------------------------------------ arrays
RECURSIVE Indices(_)
Indices(shape) ==
    IF shape = <<>> THEN {<<>>}
    ELSE {<<i>> \o rest : i \in 0..(shape[1] - 1), rest \in Indices(Tail(shape))}

\* C-order (row-major) position of an index tuple, and back.
RECURSIVE Flat(_, _)
Flat(idx, shape) ==
    IF shape = <<>> THEN 0
    ELSE Flat(Front(idx), Front(shape)) * Last(shape) + Last(idx)

RECURSIVE Unflat(_, _)
Unflat(n, shape) ==
    IF shape = <<>> THEN <<>>
    ELSE Unflat(n \div Last(shape), Front(shape)) \o <<n % Last(shape)>>

\* np.arange(size).reshape(shape): every cell holds its own C-order position,
\* so a result cell names the input cell its value came from.
arange(shape) == [shape |-> shape, data |-> [idx \in Indices(shape) |-> Flat(idx, shape)]]

zeros(shape) == [shape |-> shape, data |-> [idx \in Indices(shape) |-> 0]]

\* Python sequence indexing s[i], i possibly negative: the 1-based position,
\* or 0 when i is out of range.
Pos(i, n) == IF i >= 0 /\ i < n THEN i + 1
             ELSE IF i < 0 /\ i >= -n THEN i + n + 1 ELSE 0

SwapSeq(s, p, q) == [j \in 1..Len(s) |-> IF j = p THEN s[q] ELSE IF j = q THEN s[p] ELSE s[j]]

\* np.swapaxes(array, a, b)
swapaxes(A, a, b) ==
    LET r == Len(A.shape)
        p == Pos(a, r)
        q == Pos(b, r)
    IN IF p = 0 \/ q = 0 THEN Err("AxisError")
       ELSE LET sh == SwapSeq(A.shape, p, q)
            IN [shape |-> sh,
                data |-> [idx \in Indices(sh) |-> A.data[SwapSeq(idx, p, q)]]]

\* np.reshape(A, newshape), C order
reshape(A, newshape) ==
    IF Prod(newshape) # Prod(A.shape) THEN Err("ValueError")
    ELSE [shape |-> newshape,
          data |-> [idx \in Indices(newshape) |-> A.data[Unflat(Flat(idx, newshape), A.shape)]]]

\* shape[-ndim:] and shape[:-ndim] (ndim >= 1; a slice clamps at the start)
Trailing(shape, ndim) ==
    SubSeq(shape, (IF Len(shape) > ndim THEN Len(shape) - ndim ELSE 0) + 1, Len(shape))
Leading(shape, ndim) ==
    SubSeq(shape, 1, IF Len(shape) > ndim THEN Len(shape) - ndim ELSE 0)

\* (-1, *shape[-ndim:])
StackedShape(shape, ndim) ==
    <<Prod(shape) \div Prod(Trailing(shape, ndim))>> \o Trailing(shape, ndim)

\* A[i] of an array of rank >= 1
SliceAt(A, i) ==
    [shape |-> Tail(A.shape),
     data |-> [idx \in Indices(Tail(A.shape)) |-> A.data[<<i>> \o idx]]]

\* Whether a value of shape vs can be assigned to a slot of shape ts (same
\* rank): numpy broadcasts an axis of size 1.
Broadcastable(vs, ts) ==
    /\ Len(vs) = Len(ts)
    /\ \A j \in 1..Len(ts) : vs[j] = ts[j] \/ vs[j] = 1

BroadcastIdx(idx, vs) == [j \in 1..Len(vs) |-> IF vs[j] = 1 THEN 0 ELSE idx[j]]

\* ------------------------------------------------------------ operations
\* s[1] + ... + s[n]
RECURSIVE SumTo(_, _)
SumTo(s, n) == IF n = 0 THEN 0 ELSE s[n] + SumTo(s, n - 1)

\* The position scipy.ndimage reads for position v of an axis of length n under
\* its default mode 'reflect': (d c b a | a b c d | d c b a).
Reflect(v, n) == LET m == v % (2 * n) IN IF m < n THEN m ELSE 2 * n - 1 - m

\* scipy.ndimage.convolve(input, weights, output) with the default mode and
\* origin, as do_stack calls it: args = <<weights, output>>.  output = None
\* allocates the result; a list of axis numbers is no array to write to.
convolve(A, args) ==
    LET w == args[1]
        c == [j \in 1..Len(w.shape) |-> w.shape[j] \div 2]
        kidx == Indices(w.shape)
        nk == Prod(w.shape)
    IN IF ~args[2].none THEN Err("AttributeError")
       ELSE IF Len(w.shape) # Len(A.shape) THEN Err("RuntimeError")
       ELSE [shape |-> A.shape,
             data |-> [p \in Indices(A.shape) |->
                SumTo([t \in 1..nk |->
                    LET k == Unflat(t - 1, w.shape)
                    IN w.data[k] * A.data[[j \in 1..Len(p) |->
                                             Reflect(p[j] + c[j] - k[j], A.shape[j])]]], nk)]]

\* cval = np.nan, the fill of map_coordinates: a value no cell of the data holds.
NaN == -1

Reverse(s) == [j \in 1..Len(s) |-> s[Len(s) + 1 - j]]

\* M.T: all axes reversed.
Transpose(M) ==
    [shape |-> Reverse(M.shape),
     data |-> [idx \in Indices(Reverse(M.shape)) |-> M.data[Reverse(idx)]]]

\* np.meshgrid(*grid), default indexing 'xy': with two or more grids the first
\* two axes of the mesh are exchanged, so grid 0 runs along mesh axis 1 and
\* grid 1 along mesh axis 0.  MeshAxis is the (1-based) mesh axis of grid a.
MeshAxis(a, k) == IF k >= 2 /\ a = 1 THEN 2 ELSE IF k >= 2 /\ a = 2 THEN 1 ELSE a
meshgrid(grid) ==
    LET k == Len(grid)
        mesh == [j \in 1..k |-> Len(grid[MeshAxis(j, k)])]
    IN [a \in 1..k |->
          [shape |-> mesh,
           data |-> [idx \in Indices(mesh) |-> grid[a][idx[MeshAxis(a, k)] + 1]]]]

\* (c - lo) * (n - 1) / (hi - lo), as an exact fraction (hi > lo).
Pixel(c, lim, n) == [num |-> (c - lim[1]) * (n - 1), den |-> lim[2] - lim[1]]

\* scipy.ndimage.map_coordinates(values, coords, order=0, cval=nan) at one
\* point p (one fraction per axis): cval outside [0, n-1], else the cell
\* nearest to p, floor(p + 1/2) on each axis.
Interp0(A, p) ==
    IF \E a \in 1..Len(p) : p[a].num < 0 \/ p[a].num > (A.shape[a] - 1) * p[a].den
    THEN NaN
    ELSE A.data[[a \in 1..Len(p) |-> (2 * p[a].num + p[a].den) \div (2 * p[a].den)]]

\* regrid.func(A, limits, coords, order=0): CartesianGrid(limits, A)(*coords).T
\* zip(self.limits, coords, self.values.shape) pairs limits, coordinate arrays
\* and axis sizes by position and stops at the shortest.
regrid_func(A, args) ==
    LET k == Len(args.coords)
        mesh == args.coords[1].shape
        z == IF Len(args.limits) < k THEN Len(args.limits) ELSE k
        m == IF Len(A.shape) < z THEN Len(A.shape) ELSE z
    IN IF m # Len(A.shape) THEN Err("RuntimeError")
       ELSE Transpose(
              [shape |-> mesh,
               data |-> [idx \in Indices(mesh) |->
                           Interp0(A, [a \in 1..m |->
                               Pixel(args.coords[a].data[idx], args.limits[a], A.shape[a])])]])

\* The identity operation handed to do_stack.
identity(A, args) == A

\* func(array[i], *args, **kwargs) for the three operations do_stack is
\* called with.
CallFunc(func, A, args) ==
    CASE func = "identity" -> identity(A, args)
      [] func = "convolve" -> convolve(A, args)
      [] func = "regrid_func" -> regrid_func(A, args)

\* ------------------------------------------------------------ do_stack
\* The loops "for i in range(ndim): array = np.swapaxes(array, axes[i],
\* lastaxes[i])", from the i-th (1-based) swap on.  axes[i] of a too short
\* list raises IndexError.
RECURSIVE SwapLoop(_, _, _, _, _)
SwapLoop(A, axes, lastaxes, i, ndim) ==
    IF i > ndim THEN A
    ELSE IF i > Len(axes) THEN Err("IndexError")
    ELSE LET B == swapaxes(A, axes[i], lastaxes[i])
         IN IF IsErr(B) THEN B ELSE SwapLoop(B, axes, lastaxes, i + 1, ndim)

NoArray == [shape |-> <<>>, data |-> <<>>]

\* What a call of do_stack leaves behind: how it ended, the array returned,
\* the slices handed to func (in order) and the extra arguments func got.
Outcome(status, out, slices, fargs) ==
    [status |-> status, out |-> out, slices |-> slices, fargs |-> fargs]

do_stack(func, ndim, array, args, axes, output) ==
    LET axes1 == IF axes.none THEN range(-ndim, 0) ELSE axes.val
        lastaxes == range(-ndim, 0)
        swapped == SwapLoop(array, axes1, lastaxes, 1, ndim)
    IN IF IsErr(swapped) THEN Outcome(swapped.err, NoArray, <<>>, args)
       ELSE
       LET stackshape == Leading(swapped.shape, ndim)
           out0 == IF output.none THEN zeros(swapped.shape) ELSE output.val
           arr == reshape(swapped, StackedShape(swapped.shape, ndim))
           out1 == reshape(out0, StackedShape(out0.shape, ndim))
           n == arr.shape[1]
           res == [i \in 0..(n - 1) |-> CallFunc(func, SliceAt(arr, i), args)]
           slot == Tail(out1.shape)
           Bad(i) == \/ IsErr(res[i])
                     \/ i >= out1.shape[1]
                     \/ ~Broadcastable(res[i].shape, slot)
           bad == {i \in 0..(n - 1) : Bad(i)}
       IN IF bad # {} THEN
             LET b == CHOOSE i \in bad : \A j \in bad : i <= j
                 kind == IF IsErr(res[b]) THEN res[b].err
                         ELSE IF b >= out1.shape[1] THEN "IndexError"
                         ELSE "ValueError"
             IN Outcome(kind, NoArray, [i \in 1..(b + 1) |-> SliceAt(arr, i - 1)], args)
          ELSE
          LET out2 == [shape |-> out1.shape,
                       data |-> [idx \in Indices(out1.shape) |->
                                   IF idx[1] < n
                                   THEN res[idx[1]].data[BroadcastIdx(Tail(idx), res[idx[1]].shape)]
                                   ELSE out1.data[idx]]]
              out3 == reshape(out2, stackshape \o Trailing(out2.shape, ndim))
              slices == [i \in 1..n |-> SliceAt(arr, i - 1)]
          IN IF IsErr(out3) THEN Outcome(out3.err, NoArray, slices, args)
             ELSE LET out4 == SwapLoop(out3, axes1, lastaxes, 1, ndim)
                  IN IF IsErr(out4) THEN Outcome(out4.err, NoArray, slices, args)
                     ELSE Outcome("ok", out4, slices, args)

\* ------------------------------------------------------------ calls of do_stack
Shapes(maxrank) == UNION {[1..r -> 1..MaxDim] : r \in 1..maxrank}

\* Axis lists of length 1..MaxRank whose entries are Python axis numbers of an
\* array of rank r, or one past them on either side.
AxesLists(r) == UNION {[1..k -> (-r - 1)..r] : k \in 1..r}

StackCalls(maxrank) ==
    {[op |-> "do_stack", shape |-> sh, ndim |-> k, axes |-> ax] :
        sh \in Shapes(maxrank), k \in 1..maxrank,
        ax \in {None} \cup {Some(a) : a \in AxesLists(maxrank)}}

Idle == Outcome("none", NoArray, <<>>, <<>>)

InitStack ==
    /\ pc = "call"
    /\ call \in {c \in StackCalls(MaxRank) :
                   /\ c.ndim <= Len(c.shape)
                   /\ c.axes.none \/ \A j \in 1..Len(c.axes.val) :
                                        c.axes.val[j] \in (-Len(c.shape) - 1)..Len(c.shape)}
    /\ ret = Idle
    /\ sigZero = <<>>
    /\ t1 = 0 /\ t2 = 0 /\ t3 = 0 /\ ncount = 0

\* do_stack(identity, ndim, np.arange(size).reshape(shape), axes=axes)
CallDoStack ==
    /\ pc = "call"
    /\ call.op = "do_stack"
    /\ ret' = do_stack("identity", call.ndim, arange(call.shape), <<>>, call.axes, None)
    /\ pc' = "done"
    /\ UNCHANGED <<call, sigZero, t1, t2, t3, ncount>>

SpecStack == InitStack /\ [][CallDoStack]_vars

\* The axis list do_stack works with, and whether it is a valid selection:
\* exactly ndim entries, each an axis of the array, all distinct.
EffAxes(c) == IF c.axes.none THEN range(-c.ndim, 0) ELSE c.axes.val
NormAxis(a, r) == Pos(a, r) - 1
InRank(a, r) == Pos(a, r) # 0
ValidSelection(c) ==
    LET ax == EffAxes(c)
        r == Len(c.shape)
    IN /\ Len(ax) = c.ndim
       /\ \A j \in 1..Len(ax) : InRank(ax[j], r)
       /\ \A i, j \in 1..Len(ax) : i # j => NormAxis(ax[i], r) # NormAxis(ax[j], r)

\* C1: for every valid selection of k distinct axes, do_stack with the
\* identity returns an array of the input's shape holding the input's value
\* at every index.
C1_IdentityRoundTrip ==
    (pc = "done" /\ call.op = "do_stack" /\ ValidSelection(call))
        => (ret.status = "ok" /\ ret.out = arange(call.shape))

\* C7: for every valid selection (a_0, ..., a_{k-1}) the slices handed to the
\* operation have the original axes a_0, ..., a_{k-1} as their axes, in that
\* order: slice axis i has the size of a_i and runs along a_i.
C7_SelectedAxesTrailInOrder ==
    (pc = "done" /\ call.op = "do_stack" /\ ValidSelection(call))
        => /\ ret.slices # <<>>
           /\ \A n \in 1..Len(ret.slices) :
                LET s == ret.slices[n]
                    ax == EffAxes(call)
                    r == Len(call.shape)
                IN /\ s.shape = [i \in 1..call.ndim |-> call.shape[Pos(ax[i], r)]]
                   /\ \A j \in Indices(s.shape) : \A i \in 1..call.ndim :
                        Unflat(s.data[j], call.shape)[Pos(ax[i], r)] = j[i]

\* C6: a call whose axes list has not exactly op_rank entries, or holds an
\* index outside the array's rank, fails before the operation is invoked.
C6_BadAxesRejected ==
    (/\ pc = "done" /\ call.op = "do_stack" /\ ~call.axes.none
     /\ \/ Len(call.axes.val) # call.ndim
        \/ \E j \in 1..Len(call.axes.val) : ~InRank(call.axes.val[j], Len(call.shape)))
        => (ret.status \notin {"ok", "none"} /\ ret.slices = <<>>)

\* ------------------------------------------------------------ enlarge_mask
\* get_circle_kernel(n): kernel[i, j] = (i-(n-1)/2)**2 + (j-(n-1)/2)**2 <= (n/2)**2,
\* stored in a float array as 1 or 0.  Both sides are multiplied by 4 here, which
\* keeps the halves exact.
get_circle_kernel(n) ==
    [shape |-> <<n, n>>,
     data |-> [idx \in Indices(<<n, n>>) |->
                 IF (2 * idx[1] - (n - 1)) * (2 * idx[1] - (n - 1))
                    + (2 * idx[2] - (n - 1)) * (2 * idx[2] - (n - 1)) <= n * n
                 THEN 1 ELSE 0]]

\* 1.*mask
AsFloat(mask) == [shape |-> mask.shape,
                  data |-> [idx \in Indices(mask.shape) |-> IF mask.data[idx] THEN 1 ELSE 0]]

\* The comparison "> 0" of enlarge_mask, on a finished call.
Positive(o) ==
    IF o.status # "ok" THEN o
    ELSE [o EXCEPT !.out = [shape |-> o.out.shape,
                            data |-> [idx \in Indices(o.out.shape) |-> o.out.data[idx] > 0]]]

\* enlarge_mask with the comparison "> 1": a cell needs two true cells under
\* the footprint.
enlarge_mask_strict(mask, n_neighbors, axes) ==
    LET N == 2 * n_neighbors + 1
        kernel == get_circle_kernel(N)
        o == do_stack("convolve", 2, AsFloat(mask), <<kernel, axes>>, None, None)
    IN IF o.status # "ok" THEN o
       ELSE [o EXCEPT !.out = [shape |-> o.out.shape,
                               data |-> [idx \in Indices(o.out.shape) |-> o.out.data[idx] > 1]]]

\* enlarge_mask(mask, n_neighbors, axes): axes goes to do_stack as its second
\* positional extra argument, so do_stack's own axes keeps its default.
enlarge_mask(mask, n_neighbors, axes) ==
    LET N == 2 * n_neighbors + 1
        kernel == get_circle_kernel(N)
    IN Positive(do_stack("convolve", 2, AsFloat(mask), <<kernel, axes>>, None, None))

\* Boolean masks of a shape with at most MaxTrue true cells, and the all-true one.
Masks(sh) ==
    {[shape |-> sh, data |-> [idx \in Indices(sh) |-> idx \in S]] :
        S \in {T \in SUBSET Indices(sh) : Cardinality(T) <= MaxTrue \/ T = Indices(sh)}}

MaskCalls(shapes, axs) ==
    {[op |-> "enlarge_mask", mask |-> m, n_neighbors |-> n, axes |-> ax] :
        m \in UNION {Masks(sh) : sh \in shapes}, n \in 0..MaxNeighbors, ax \in axs}

InitMask ==
    /\ pc = "call"
    /\ call \in MaskCalls([1..2 -> 1..MaskDim], {None})
    /\ ret = Idle
    /\ sigZero = <<>>
    /\ t1 = 0 /\ t2 = 0 /\ t3 = 0 /\ ncount = 0

\* Stacks of masks, with and without an explicit pair of axes.
InitMaskAxes ==
    /\ pc = "call"
    /\ call \in {c \in MaskCalls([1..2 -> 1..MaxDim] \cup [1..3 -> 1..MaxStack],
                                 {None} \cup {Some(a) : a \in [1..2 -> -3..2]}) :
                   IF c.axes.none THEN TRUE
                   ELSE /\ \A j \in 1..2 : InRank(c.axes.val[j], Len(c.mask.shape))
                        /\ NormAxis(c.axes.val[1], Len(c.mask.shape))
                             # NormAxis(c.axes.val[2], Len(c.mask.shape))}
    /\ ret = Idle
    /\ sigZero = <<>>
    /\ t1 = 0 /\ t2 = 0 /\ t3 = 0 /\ ncount = 0

CallEnlargeMask ==
    /\ pc = "call"
    /\ call.op = "enlarge_mask"
    /\ ret' = enlarge_mask(call.mask, call.n_neighbors, call.axes)
    /\ pc' = "done"
    /\ UNCHANGED <<call, sigZero, t1, t2, t3, ncount>>

SpecMask == InitMask /\ [][CallEnlargeMask]_vars

SpecMaskAxes == InitMaskAxes /\ [][CallEnlargeMask]_vars

\* Whether cell p lies in the footprint of circle_kernel(2*n+1) centred on q.
InFootprint(p, q, n) ==
    4 * ((p[1] - q[1]) * (p[1] - q[1]) + (p[2] - q[2]) * (p[2] - q[2]))
        <= (2 * n + 1) * (2 * n + 1)

\* C5: on a 2D mask, the result of enlarge_mask has the mask's shape and is
\* true at a cell iff the cell lies in the circle_kernel(2*n_neighbors+1)
\* footprint centred on some true cell of the mask (cells of the footprint
\* outside the array are dropped).
C5_DilationIsFootprintUnion ==
    (pc = "done" /\ call.op = "enlarge_mask" /\ Len(call.mask.shape) = 2 /\ call.axes.none)
        => /\ ret.status = "ok"
           /\ ret.out.shape = call.mask.shape
           /\ \A p \in Indices(call.mask.shape) :
                ret.out.data[p] <=> \E q \in Indices(call.mask.shape) :
                                      call.mask.data[q] /\ InFootprint(p, q, call.n_neighbors)

\* A single true cell in the corner, n_neighbors = 1: the footprint is cut by
\* the array's edge and does not fill the array.
C5_Witness ==
    /\ pc = "done" /\ call.op = "enlarge_mask" /\ call.axes.none
    /\ call.n_neighbors = 1
    /\ call.mask.shape = <<3, 3>>
    /\ \A q \in Indices(call.mask.shape) : call.mask.data[q] <=> q = <<0, 0>>
    /\ ret.status = "ok"
    /\ ret.out.data[<<1, 1>>] /\ ~ret.out.data[<<2, 2>>]

\* C10: with an explicit pair of axes, do_stack works on exactly those axes
\* (each slice handed to the convolution spans them, in order) and the
\* convolution gets the slice and the kernel only.
C10_AxesReachDoStack ==
    (pc = "done" /\ call.op = "enlarge_mask" /\ ~call.axes.none)
        => /\ ret.status = "ok"
           /\ ret.fargs = <<get_circle_kernel(2 * call.n_neighbors + 1)>>
           /\ \A n \in 1..Len(ret.slices) :
                ret.slices[n].shape =
                    [i \in 1..2 |-> call.mask.shape[Pos(call.axes.val[i], Len(call.mask.shape))]]

\* ------------------------------------------------------------ get_zero_dichoto
\* sigZero[i] = sig[i] - target
Centered(sig, target) == [i \in 1..Len(sig) |-> sig[i] - target]

\* int((t2-t1)/2): half of the window's width, without its offset t1.
HalfNoOffset(a, b) == LET d == b - a IN IF d >= 0 THEN d \div 2 ELSE -((-d) \div 2)

\* t3 = int((t2+t1)/2)
Mid(a, b) == LET v == b + a IN IF v >= 0 THEN v \div 2 ELSE -((-v) \div 2)

\* One pass of the loop body on the window [a, b]: the new <<t1, t2>>.
\* (sz is 1-based here, the window is in Python's 0-based positions.)
DichotoBody(sz, a, b) ==
    LET m == Mid(a, b)
    IN IF sz[b + 1] * sz[m + 1] >= 0 THEN <<a, m>> ELSE <<m, b>>

RECURSIVE DichotoLoop(_, _, _, _)
DichotoLoop(sz, a, b, cnt) ==
    IF (b - a > 1) /\ (cnt < MaxIter)
    THEN LET w == DichotoBody(sz, a, b) IN DichotoLoop(sz, w[1], w[2], cnt + 1)
    ELSE a

\* The whole function, as get_cursor calls it.
get_zero_dichoto(sig, target, a, b) ==
    DichotoLoop(Centered(sig, target), a, IF b.none THEN Len(sig) - 1 ELSE b.val, 0)

\* The window the search starts from.
Window2(c) == IF c.t2.none THEN Len(c.sig) - 1 ELSE c.t2.val

DichotoCalls(len, mag, targets) ==
    {[op |-> "get_zero_dichoto", sig |-> sg, target |-> tg, t1 |-> a, t2 |-> b] :
        sg \in UNION {[1..n -> (-mag)..mag] : n \in 1..len}, tg \in targets,
        a \in 0..(len - 1), b \in {None} \cup {Some(v) : v \in 0..(len - 1)}}

InWindow(c) == c.t1 < Len(c.sig) /\ (c.t2.none \/ (c.t1 < c.t2.val /\ c.t2.val < Len(c.sig)))

InitDichoto ==
    /\ pc = "call"
    /\ call \in {c \in DichotoCalls(MaxLen, MaxMag, {0, 1}) : InWindow(c)}
    /\ ret = Idle
    /\ sigZero = <<>>
    /\ t1 = 0 /\ t2 = 0 /\ t3 = 0 /\ ncount = 0

InitBracket ==
    /\ pc = "call"
    /\ call \in {c \in DichotoCalls(BracketLen, BracketMag, {0}) : InWindow(c)}
    /\ ret = Idle
    /\ sigZero = <<>>
    /\ t1 = 0 /\ t2 = 0 /\ t3 = 0 /\ ncount = 0

\* Lines 234-241: the centred signal, the default t2, the counter.
DichotoEnter ==
    /\ pc = "call"
    /\ call.op = "get_zero_dichoto"
    /\ sigZero' = Centered(call.sig, call.target)
    /\ t1' = call.t1
    /\ t2' = Window2(call)
    /\ ncount' = 0
    /\ pc' = "loop"
    /\ UNCHANGED <<call, ret, t3>>

\* Lines 242-248: one pass of the while loop.
DichotoStep ==
    /\ pc = "loop"
    /\ (t2 - t1 > 1) /\ (ncount < MaxIter)
    /\ ncount' = ncount + 1
    /\ t3' = Mid(t1, t2)
    /\ t1' = DichotoBody(sigZero, t1, t2)[1]
    /\ t2' = DichotoBody(sigZero, t1, t2)[2]
    /\ UNCHANGED <<pc, call, ret, sigZero>>

\* Line 250: return t1
DichotoReturn ==
    /\ pc = "loop"
    /\ ~((t2 - t1 > 1) /\ (ncount < MaxIter))
    /\ ret' = Outcome("ok", t1, <<>>, <<>>)
    /\ pc' = "done"
    /\ UNCHANGED <<call, sigZero, t1, t2, t3, ncount>>

NextDichoto == DichotoEnter \/ DichotoStep \/ DichotoReturn

SpecDichoto == InitDichoto /\ [][NextDichoto]_vars

SpecBracket == InitBracket /\ [][NextDichoto]_vars

\* C3: when the centred signal has strictly opposite signs at the two ends of
\* the initial window, the index t returned brackets the crossing:
\* centered[t] * centered[t+1] <= 0.
C3_BracketStraddles ==
    (/\ pc = "done" /\ call.op = "get_zero_dichoto"
     /\ call.t1 < Window2(call)
     /\ sigZero[call.t1 + 1] * sigZero[Window2(call) + 1] < 0)
        => sigZero[ret.out + 1] * sigZero[ret.out + 2] <= 0

\* The least k with 2^k >= w, for w >= 1.
RECURSIVE CeilLog2(_)
CeilLog2(w) == IF w <= 1 THEN 0 ELSE 1 + CeilLog2((w + 1) \div 2)

\* C8: from a window 0 <= t1 < t2 <= len-1, every pass picks t1 < t3 < t2,
\* the width strictly decreases and stays >= 1, the loop is left with width 1
\* after at most ceil(log2(initial width)) passes (below the cap), and the
\* index returned lies in [initial t1, initial t2 - 1].
C8_BisectionShrinks ==
    [][(pc = "loop" /\ call.t1 < Window2(call))
         => /\ (pc' = "loop" => /\ t1 < t3' /\ t3' < t2
                                /\ t2' - t1' < t2 - t1
                                /\ t2' - t1' >= 1
                                /\ ncount' <= CeilLog2(Window2(call) - call.t1)
                                /\ ncount' < MaxIter)
            /\ (pc' = "done" => /\ t2 - t1 = 1
                                /\ ncount <= CeilLog2(Window2(call) - call.t1)
                                /\ ret'.out >= call.t1
                                /\ ret'.out <= Window2(call) - 1)]_vars

\* A search that took two passes and moved both ends of its window.
C8_Witness ==
    /\ pc = "done" /\ call.op = "get_zero_dichoto"
    /\ ncount = 2
    /\ t1 > call.t1 /\ t2 < Window2(call)
    /\ ret.out = t1

\* ------------------------------------------------------------ get_cursor
\* get_cursor(x, y, pointer, t1, t2, Xaxis).  Samples are integers; the
\* quotient returned is kept exact, as the fraction num/den:
\*   (pointer-y[t]) / ((y[t+1]-y[t]) / (x[t+1]-x[t])) + x[t]
\*     = ((pointer-y[t])*(x[t+1]-x[t]) + x[t]*(y[t+1]-y[t])) / (y[t+1]-y[t])
\* The bracket t the interpolation used is kept beside it.
get_cursor(x0, y0, pointer, a, b, Xaxis) ==
    LET x == IF Xaxis THEN y0 ELSE x0
        y == IF Xaxis THEN x0 ELSE y0
        w1 == IF a.none THEN 0 ELSE get_zero_dichoto(x, a.val, 0, None)
        w2 == IF b.none THEN None ELSE Some(get_zero_dichoto(x, b.val, 0, None))
        t == get_zero_dichoto(y, pointer, w1, w2)
    IN IF t + 2 > Len(y) \/ t + 2 > Len(x) THEN Outcome("IndexError", NoArray, <<>>, <<>>)
       ELSE LET dy == y[t + 2] - y[t + 1]
                dx == x[t + 2] - x[t + 1]
            IN IF dx = 0 \/ dy = 0 THEN Outcome("ZeroDivisionError", NoArray, <<>>, <<>>)
               ELSE Outcome("ok",
                            [t |-> t,
                             num |-> (pointer - y[t + 1]) * dx + x[t + 1] * dy,
                             den |-> dy],
                            <<>>, <<>>)

Increasing(s) == \A i \in 1..(Len(s) - 1) : s[i] < s[i + 1]
Decreasing(s) == \A i \in 1..(Len(s) - 1) : s[i] > s[i + 1]

Curves(len) == UNION {[1..n -> 0..MaxCoord] : n \in 2..len}

InitCursor ==
    /\ pc = "call"
    /\ call \in {[op |-> "get_cursor", x |-> x, y |-> y, pointer |-> p,
                  t1 |-> a, t2 |-> b, Xaxis |-> sw] :
                    x \in {s \in Curves(CursorLen) : Increasing(s)},
                    y \in {s \in Curves(CursorLen) : Increasing(s) \/ Decreasing(s)},
                    p \in 0..MaxCoord,
                    a \in {None, Some(0)}, b \in {None, Some(MaxCoord)},
                    sw \in BOOLEAN}
    /\ Len(call.x) = Len(call.y)
    /\ ret = Idle
    /\ sigZero = <<>>
    /\ t1 = 0 /\ t2 = 0 /\ t3 = 0 /\ ncount = 0

CallGetCursor ==
    /\ pc = "call"
    /\ call.op = "get_cursor"
    /\ ret' = get_cursor(call.x, call.y, call.pointer, call.t1, call.t2, call.Xaxis)
    /\ pc' = "done"
    /\ UNCHANGED <<call, sigZero, t1, t2, t3, ncount>>

SpecCursor == InitCursor /\ [][CallGetCursor]_vars

Between(v, a, b) == (a <= v /\ v <= b) \/ (b <= v /\ v <= a)

\* C4: for strictly increasing x, strictly monotonic y, the default window
\* and a pointer within the range of y, the bracket t used satisfies pointer
\* between y[t] and y[t+1], and the value returned is the abscissa of the
\* piecewise-linear curve at pointer, so it lies in [x[t], x[t+1]].
C4_CursorOnCurve ==
    (/\ pc = "done" /\ call.op = "get_cursor" /\ ~call.Xaxis
     /\ call.t1.none /\ call.t2.none
     /\ \E i, j \in 1..Len(call.y) : call.y[i] <= call.pointer /\ call.pointer <= call.y[j])
        => /\ ret.status = "ok"
           /\ LET t == ret.out.t
                  dy == call.y[t + 2] - call.y[t + 1]
                  dx == call.x[t + 2] - call.x[t + 1]
              IN /\ Between(call.pointer, call.y[t + 1], call.y[t + 2])
                 /\ ret.out.num * dy
                      = ret.out.den * (call.x[t + 1] * dy + (call.pointer - call.y[t + 1]) * dx)
                 /\ Between(ret.out.num, call.x[t + 1] * ret.out.den, call.x[t + 2] * ret.out.den)

\* ------------------------------------------------------------ regrid
\* "for i, ax in enumerate(axes): shape[ax] = len(grid[i])", from the i-th
\* (1-based) entry of axes on.
RECURSIVE NewShape(_, _, _, _)
NewShape(shape, axes, grid, i) ==
    IF i > Len(axes) THEN [shape |-> shape]
    ELSE IF i > Len(grid) \/ Pos(axes[i], Len(shape)) = 0 THEN Err("IndexError")
    ELSE NewShape([shape EXCEPT ![Pos(axes[i], Len(shape))] = Len(grid[i])], axes, grid, i + 1)

\* regrid(data, limits, *grid, axes=axes, order=0)
regrid(data, limits, grid, axes) ==
    LET ndim == Len(grid)
        axes1 == IF axes.none THEN range(-ndim, 0) ELSE axes.val
        ns == NewShape(data.shape, axes1, grid, 1)
    IN IF Len(limits) # ndim THEN Outcome("ValueError", NoArray, <<>>, <<>>)
       ELSE IF IsErr(ns) THEN Outcome(ns.err, NoArray, <<>>, <<>>)
       ELSE do_stack("regrid_func", ndim, data,
                     [limits |-> limits, coords |-> meshgrid(grid)],
                     Some(axes1), Some(zeros(ns.shape)))

\* Target grids: a single coordinate, and two coordinates in either order.
Grids == {<<0>>, <<0, 1>>, <<1, 0>>}
Limits == {<<0, hi>> : hi \in 1..MaxHi}

\* k distinct axes of an array of rank r, written all non-negative or all negative.
Selections(r, k) ==
    {a \in [1..k -> 0..(r - 1)] \cup [1..k -> (-r)..(-1)] :
        \A i, j \in 1..k : i # j => a[i] # a[j]}

RegridCalls(maxrank) ==
    UNION {{[op |-> "regrid", shape |-> sh, limits |-> lm, grid |-> g, axes |-> ax] :
               sh \in [1..r -> 1..MaxDim],
               lm \in [1..k -> Limits] \cup {<<>>},
               g \in [1..k -> Grids],
               ax \in {None} \cup {Some(a) : a \in Selections(r, k)}} :
           r \in 1..maxrank, k \in 1..maxrank}

InitRegrid ==
    /\ pc = "call"
    /\ call \in {c \in RegridCalls(MaxRank) : Len(c.grid) <= Len(c.shape)}
    /\ ret = Idle
    /\ sigZero = <<>>
    /\ t1 = 0 /\ t2 = 0 /\ t3 = 0 /\ ncount = 0

\* regrid(np.arange(size).reshape(shape), limits, *grid, axes=axes, order=0)
CallRegrid ==
    /\ pc = "call"
    /\ call.op = "regrid"
    /\ ret' = regrid(arange(call.shape), call.limits, call.grid, call.axes)
    /\ pc' = "done"
    /\ UNCHANGED <<call, sigZero, t1, t2, t3, ncount>>

SpecRegrid == InitRegrid /\ [][CallRegrid]_vars

RegridAxes(c) == IF c.axes.none THEN range(-Len(c.grid), 0) ELSE c.axes.val

\* C2: for any valid selection of regridded axes, regrid returns an array
\* whose shape is the input's with each regridded axis resized to the length
\* of its target grid, the other axes keeping position and size.
C2_RegridShape ==
    (pc = "done" /\ call.op = "regrid" /\ Len(call.limits) = Len(call.grid))
        => /\ ret.status = "ok"
           /\ ret.out.shape =
                [j \in 1..Len(call.shape) |->
                    IF \E i \in 1..Len(call.grid) :
                         Pos(RegridAxes(call)[i], Len(call.shape)) = j
                    THEN Len(call.grid[CHOOSE i \in 1..Len(call.grid) :
                                  Pos(RegridAxes(call)[i], Len(call.shape)) = j])
                    ELSE call.shape[j]]

\* data[lead]: the slice of the trailing axes at the leading index tuple lead.
SubArray(A, lead) ==
    LET sh == SubSeq(A.shape, Len(lead) + 1, Len(A.shape))
    IN [shape |-> sh, data |-> [j \in Indices(sh) |-> A.data[lead \o j]]]

\* C9: with k = 1, 2 or 3 trailing axes regridded, the value at destination
\* index (i_0, ..., i_{k-1}) of a slice is the interpolation of the source
\* slice at the pixel tuple (p_0(target_0[i_0]), ..., p_{k-1}(target_{k-1}[i_{k-1}])).
C9_DestinationIndexedByTarget ==
    (pc = "done" /\ call.op = "regrid" /\ call.axes.none /\ Len(call.limits) = Len(call.grid))
        => /\ ret.status = "ok"
           /\ LET k == Len(call.grid)
                  r == Len(call.shape)
              IN \A idx \in Indices(ret.out.shape) :
                    LET A == SubArray(arange(call.shape), SubSeq(idx, 1, r - k))
                    IN ret.out.data[idx] =
                         Interp0(A, [a \in 1..k |->
                            Pixel(call.grid[a][idx[r - k + a] + 1], call.limits[a], A.shape[a])])

====
